---- MODULE Spec2Model ----
(***************************************************************************)
(* ue-angelscript-mcp: the commandlet runner (util/commandlet-runner) and  *)
(* the script path resolver (tools/scripts).                               *)
(*                                                                         *)
(* Strings are modelled by their structure.  A captured output buffer is a *)
(* sequence of segments, [kind |-> "data", len |-> n] for n characters of  *)
(* process output and [kind |-> "marker", ...] for a truncation marker the *)
(* runner appended; adjacent data segments are one segment, as string      *)
(* concatenation keeps no chunk boundaries.  A path is a sequence of       *)
(* one-character strings.                                                  *)
(***************************************************************************)
EXTENDS Integers, Sequences, FiniteSets, TLC

\* ------------------------------------------------------------------------
\* Bounds of the model
\* ------------------------------------------------------------------------

\* number of 'data' events (both streams together) of one run
MaxChunks == 4

\* number of segments of a candidate path
MaxSegs == 3

\* number of consecutive calls of scanForScripts
MaxScanCalls == 2

\* number of characters of a file searched
MaxContentLen == 5

\* largest context_lines
MaxContext == 2

\* largest max_results
MaxCap == 3

\* largest start_line and end_line, and the largest below zero
MaxLineArg == 4

\* ------------------------------------------------------------------------
\* Program constants
\* ------------------------------------------------------------------------

MAX_OUTPUT_SIZE == 1024 * 1024

\* length of "\n... [stdout truncated - exceeded 1MB limit]" (the stderr
\* marker has the same length)
TruncMarkerLen == 44

\* sizes of the chunks a 'data' event may carry
ChunkSizes == {1, MAX_OUTPUT_SIZE - 1, MAX_OUTPUT_SIZE, MAX_OUTPUT_SIZE + 1}

\* exit codes of a child that exits on its own
ExitCodes == {0, 1}

\* errno a failed spawn reports (ENOENT, EACCES)
SpawnErrnos == {-2, -13}

VARIABLES
    \* --- the child process and node's event loop (the environment) ---
    procState,        \* "running" | "exited" | "killed" | "spawnfailed"
    osExitCode,       \* exit status of a child that exited on its own
    spawnErrno,       \* errno of a failed spawn
    timerArmed,       \* the setTimeout callback is still scheduled
    killCalls,        \* number of proc.kill("SIGKILL") calls
    errorEmitted,     \* 'error' was delivered
    closeEmitted,     \* 'close' was delivered
    nData,            \* number of 'data' events delivered
    \* --- the locals of runCommandlet ---
    stdout, stderr,
    stdoutTruncated, stderrTruncated,
    timedOut, finished,
    promise,          \* the promise runCommandlet returns
    \* --- history ---
    resolveCalls,     \* number of calls of resolve()
    stdoutDropped, stderrDropped, \* some data of the stream was not captured
    \* --- resolveScriptPath ---
    roots,            \* the Root Set, getScriptRoots()
    filePath,         \* the candidate path
    resolvePc,        \* "call" | "done"
    resolved,         \* the value returned
    \* --- isPathInScriptRoots ---
    confPc,           \* "call" | "done"
    inRoots,          \* the value returned
    \* --- scanForScripts ---
    scanRoots,        \* the Root Set scanned
    unreadable,       \* the directories fs.readdirSync fails on
    unstatable,       \* the files fs.statSync fails on
    scanCalls,        \* number of calls of scanForScripts so far
    lastScan,         \* the value the last call returned
    prevScan,         \* the value the call before it returned
    \* --- searchInFile and the as_search_scripts handler ---
    contents,         \* the text of the files on disk, by path
    readFails,        \* the files fs.readFileSync fails on
    pattern,          \* the pattern argument
    context_lines,    \* the context_lines argument
    max_results,      \* the max_results argument
    searchPc,         \* "file": searchInFile is to be called;
                      \* "handler": the handler is; "done"
    fileMatches,      \* the value searchInFile returned
    outcome,          \* how the handler ended
    didScan,          \* the handler called scanForScripts
    searchFiles,      \* the handler's files
    filesRead,        \* the files the handler called searchInFile on
    searchResults,    \* the matches the handler reports
    matchCount,       \* the handler's matchCount
    \* --- readFileWithLines ---
    start_line,       \* the start_line argument
    end_line,         \* the end_line argument
    readPc,           \* "call": readFileWithLines is to be called; "done"
    readOut           \* the numbered lines returned

runVars == <<procState, osExitCode, spawnErrno, timerArmed, killCalls,
             errorEmitted, closeEmitted, nData, stdout, stderr,
             stdoutTruncated, stderrTruncated, timedOut, finished, promise,
             resolveCalls, stdoutDropped, stderrDropped>>

\* the script path resolver (one call of resolveScriptPath)
resVars == <<roots, filePath, resolvePc, resolved>>

\* one call of isPathInScriptRoots(filePath, roots)
confVars == <<confPc, inRoots>>

\* consecutive calls of scanForScripts(scanRoots) on an unchanged disk
scanVars == <<scanRoots, unreadable, unstatable, scanCalls, lastScan, prevScan>>

\* the inputs of a search
searchIn == <<contents, readFails, pattern, context_lines, max_results>>

\* what a search left
searchOut ==
    <<searchPc, fileMatches, outcome, didScan, searchFiles, filesRead,
      searchResults, matchCount>>

searchVars == <<searchIn, searchOut>>

\* one call of readFileWithLines
readVars == <<start_line, end_line, readPc, readOut>>

toolVars == <<confVars, scanVars, searchVars, readVars>>

vars == <<runVars, resVars, toolVars>>

\* ------------------------------------------------------------------------
\* Output buffers
\* ------------------------------------------------------------------------

Data(n) == [kind |-> "data", len |-> n]

StdoutMarker == [kind |-> "marker", stream |-> "stdout", len |-> TruncMarkerLen]
StderrMarker == [kind |-> "marker", stream |-> "stderr", len |-> TruncMarkerLen]

RECURSIVE BufLen(_)
\* string.length
BufLen(buf) == IF buf = <<>> THEN 0 ELSE Head(buf).len + BufLen(Tail(buf))

\* buf + n characters of process output
Concat(buf, n) ==
    IF n = 0 THEN buf
    ELSE IF buf # <<>> /\ buf[Len(buf)].kind = "data"
         THEN [buf EXCEPT ![Len(buf)] = Data(buf[Len(buf)].len + n)]
         ELSE Append(buf, Data(n))

\* number of truncation markers the runner appended to buf
MarkerCount(buf) == Cardinality({i \in 1..Len(buf) : buf[i].kind = "marker"})

\* the 'data' handler of a stream: the new value of the buffer
CaptureNoLimitCheck(buf, n, marker) ==
    LET remaining == MAX_OUTPUT_SIZE - BufLen(buf)
    IN  IF n > remaining
        THEN Append(Concat(buf, IF remaining > 0 THEN remaining ELSE 0), marker)
        ELSE Concat(buf, n)

Capture(buf, n, marker) ==
    IF BufLen(buf) < MAX_OUTPUT_SIZE
    THEN LET remaining == MAX_OUTPUT_SIZE - BufLen(buf)
         IN  IF n > remaining
             THEN Append(Concat(buf, remaining), marker)
             ELSE Concat(buf, n)
    ELSE buf

\* the 'data' handler of a stream: the new value of its truncated flag
CaptureFlag(buf, n, flag) ==
    IF BufLen(buf) < MAX_OUTPUT_SIZE /\ n > MAX_OUTPUT_SIZE - BufLen(buf)
    THEN TRUE
    ELSE flag

\* the handler left some of the n characters out of the buffer
Drops(buf, n) ==
    \/ BufLen(buf) >= MAX_OUTPUT_SIZE
    \/ n > MAX_OUTPUT_SIZE - BufLen(buf)

\* ------------------------------------------------------------------------
\* The promise
\* ------------------------------------------------------------------------

Pending == [state |-> "pending"]

\* resolve(r): the first call settles the promise, later calls do nothing
ResolveOverwrites(p, r) == [state |-> "fulfilled", value |-> r]

Resolve(p, r) ==
    IF p.state = "pending" THEN [state |-> "fulfilled", value |-> r] ELSE p

Resolved == promise.state = "fulfilled"

\* ------------------------------------------------------------------------
\* runCommandlet
\* ------------------------------------------------------------------------

\* The state when the promise executor has returned: spawn() was called
\* (the child runs, or the launch failed and 'error' is queued with
\* process.nextTick), the timer is armed, the handlers are registered.
RunInit ==
    /\ \/ procState = "running" /\ spawnErrno = 0
       \/ procState = "spawnfailed" /\ spawnErrno \in SpawnErrnos
    /\ osExitCode = -1
    /\ timerArmed = TRUE
    /\ killCalls = 0
    /\ errorEmitted = FALSE
    /\ closeEmitted = FALSE
    /\ nData = 0
    /\ stdout = <<>>
    /\ stderr = <<>>
    /\ stdoutTruncated = FALSE
    /\ stderrTruncated = FALSE
    /\ timedOut = FALSE
    /\ finished = FALSE
    /\ promise = Pending
    /\ resolveCalls = 0
    /\ stdoutDropped = FALSE
    /\ stderrDropped = FALSE

\* The child ends on its own with exit code c.  Node emits 'close' only
\* after the process has ended and its stdio streams are closed as well
\* (they stay open while a process the child started still holds them),
\* and the timers phase of the event loop can run in between.
Exit(c) ==
    /\ procState = "running"
    /\ procState' = "exited"
    /\ osExitCode' = c
    /\ UNCHANGED <<spawnErrno, timerArmed, killCalls, errorEmitted,
                   closeEmitted, nData, stdout, stderr, stdoutTruncated,
                   stderrTruncated, timedOut, finished, promise,
                   resolveCalls, stdoutDropped, stderrDropped>>

\* the pipes of a launched child deliver data until 'close'
StreamsOpen ==
    /\ procState \in {"running", "exited", "killed"}
    /\ ~closeEmitted

\* the stdout handler, were the two streams to share the truncated flag
StdoutDataSharedFlag(n) ==
    /\ StreamsOpen
    /\ nData < MaxChunks
    /\ nData' = nData + 1
    /\ stdout' = Capture(stdout, n, StdoutMarker)
    /\ stdoutTruncated' = CaptureFlag(stdout, n, stdoutTruncated)
    /\ stderrTruncated' = CaptureFlag(stdout, n, stderrTruncated)
    /\ stdoutDropped' = (stdoutDropped \/ Drops(stdout, n))
    /\ UNCHANGED <<procState, osExitCode, spawnErrno, timerArmed, killCalls,
                   errorEmitted, closeEmitted, stderr,
                   timedOut, finished, promise, resolveCalls, stderrDropped>>

\* proc.stdout.on("data")
StdoutData(n) ==
    /\ StreamsOpen
    /\ nData < MaxChunks
    /\ nData' = nData + 1
    /\ stdout' = Capture(stdout, n, StdoutMarker)
    /\ stdoutTruncated' = CaptureFlag(stdout, n, stdoutTruncated)
    /\ stdoutDropped' = (stdoutDropped \/ Drops(stdout, n))
    /\ UNCHANGED <<procState, osExitCode, spawnErrno, timerArmed, killCalls,
                   errorEmitted, closeEmitted, stderr, stderrTruncated,
                   timedOut, finished, promise, resolveCalls, stderrDropped>>

\* proc.stderr.on("data")
StderrData(n) ==
    /\ StreamsOpen
    /\ nData < MaxChunks
    /\ nData' = nData + 1
    /\ stderr' = Capture(stderr, n, StderrMarker)
    /\ stderrTruncated' = CaptureFlag(stderr, n, stderrTruncated)
    /\ stderrDropped' = (stderrDropped \/ Drops(stderr, n))
    /\ UNCHANGED <<procState, osExitCode, spawnErrno, timerArmed, killCalls,
                   errorEmitted, closeEmitted, stdout, stdoutTruncated,
                   timedOut, finished, promise, resolveCalls, stdoutDropped>>

\* proc.kill("SIGKILL"): a running child dies; a child that has already
\* ended is not affected
Kill(st) == IF st = "running" THEN "killed" ELSE st

\* The setTimeout callback.  A failed spawn queues 'error' with
\* process.nextTick, which runs before any timer.
TimeoutCallbackNoKill ==
    /\ timerArmed
    /\ ~(procState = "spawnfailed" /\ ~errorEmitted)
    /\ timerArmed' = FALSE
    /\ IF ~finished
       THEN /\ timedOut' = TRUE
            /\ UNCHANGED <<killCalls, procState>>
       ELSE UNCHANGED <<timedOut, killCalls, procState>>
    /\ UNCHANGED <<osExitCode, spawnErrno, errorEmitted, closeEmitted, nData,
                   stdout, stderr, stdoutTruncated, stderrTruncated, finished,
                   promise, resolveCalls, stdoutDropped, stderrDropped>>

TimeoutCallback ==
    /\ timerArmed
    /\ ~(procState = "spawnfailed" /\ ~errorEmitted)
    /\ timerArmed' = FALSE
    /\ IF ~finished
       THEN /\ timedOut' = TRUE
            /\ killCalls' = killCalls + 1
            /\ procState' = Kill(procState)
       ELSE UNCHANGED <<timedOut, killCalls, procState>>
    /\ UNCHANGED <<osExitCode, spawnErrno, errorEmitted, closeEmitted, nData,
                   stdout, stderr, stdoutTruncated, stderrTruncated, finished,
                   promise, resolveCalls, stdoutDropped, stderrDropped>>

\* the code 'close' carries: the exit code of a child that exited, null
\* (here -1, as `code ?? -1` makes it) of a child a signal ended, the errno
\* of a launch that failed
CloseCode ==
    CASE procState = "exited" -> osExitCode
      [] procState = "killed" -> -1
      [] OTHER -> spawnErrno

\* proc.on("close"): emitted once the child has ended and its pipes are
\* closed; after a failed launch it follows 'error'
OnCloseIgnoresTimeout ==
    /\ ~closeEmitted
    /\ \/ procState \in {"exited", "killed"}
       \/ procState = "spawnfailed" /\ errorEmitted
    /\ closeEmitted' = TRUE
    /\ finished' = TRUE
    /\ timerArmed' = FALSE
    /\ promise' = Resolve(promise, [exitCode |-> CloseCode, stdout |-> stdout,
                                    stderr |-> stderr, timedOut |-> FALSE])
    /\ resolveCalls' = resolveCalls + 1
    /\ UNCHANGED <<procState, osExitCode, spawnErrno, killCalls, errorEmitted,
                   nData, stdout, stderr, stdoutTruncated, stderrTruncated,
                   timedOut, stdoutDropped, stderrDropped>>

OnClose ==
    /\ ~closeEmitted
    /\ \/ procState \in {"exited", "killed"}
       \/ procState = "spawnfailed" /\ errorEmitted
    /\ closeEmitted' = TRUE
    /\ finished' = TRUE
    /\ timerArmed' = FALSE
    /\ promise' = Resolve(promise, [exitCode |-> CloseCode, stdout |-> stdout,
                                    stderr |-> stderr, timedOut |-> timedOut])
    /\ resolveCalls' = resolveCalls + 1
    /\ UNCHANGED <<procState, osExitCode, spawnErrno, killCalls, errorEmitted,
                   nData, stdout, stderr, stdoutTruncated, stderrTruncated,
                   timedOut, stdoutDropped, stderrDropped>>

\* `\nSpawn error: ${err.message}`
SpawnError(e) == [kind |-> "spawnerror", errno |-> e]

\* proc.on("error"): the launch failed
OnErrorKeepsTimer ==
    /\ procState = "spawnfailed"
    /\ ~errorEmitted
    /\ errorEmitted' = TRUE
    /\ finished' = TRUE
    /\ promise' = Resolve(promise, [exitCode |-> -1, stdout |-> stdout,
                                    stderr |-> Append(stderr, SpawnError(spawnErrno)),
                                    timedOut |-> FALSE])
    /\ resolveCalls' = resolveCalls + 1
    /\ UNCHANGED <<procState, osExitCode, spawnErrno, killCalls, closeEmitted,
                   nData, stdout, stderr, stdoutTruncated, stderrTruncated,
                   timedOut, stdoutDropped, stderrDropped, timerArmed>>

OnError ==
    /\ procState = "spawnfailed"
    /\ ~errorEmitted
    /\ errorEmitted' = TRUE
    /\ finished' = TRUE
    /\ timerArmed' = FALSE
    /\ promise' = Resolve(promise, [exitCode |-> -1, stdout |-> stdout,
                                    stderr |-> Append(stderr, SpawnError(spawnErrno)),
                                    timedOut |-> FALSE])
    /\ resolveCalls' = resolveCalls + 1
    /\ UNCHANGED <<procState, osExitCode, spawnErrno, killCalls, closeEmitted,
                   nData, stdout, stderr, stdoutTruncated, stderrTruncated,
                   timedOut, stdoutDropped, stderrDropped>>

\* as_run_tests: the status line printed for a result
RunTestsStatus(r) == IF r.exitCode = 0 THEN "PASSED" ELSE "FAILED"

\* ------------------------------------------------------------------------
\* Paths (node's path.posix) and the file system
\* ------------------------------------------------------------------------

\* path.sep
Sep == "/"

\* string concatenation of a sequence of strings with a separator
RECURSIVE Join(_)
Join(segs) ==
    IF segs = <<>> THEN <<>>
    ELSE IF Len(segs) = 1 THEN Head(segs)
    ELSE Head(segs) \o <<Sep>> \o Join(Tail(segs))

\* split a string at the separators: "/a//b" is "", "a", "", "b"
RECURSIVE Split(_)
Split(s) ==
    IF \A i \in 1..Len(s) : s[i] # Sep THEN <<s>>
    ELSE LET k == CHOOSE i \in 1..Len(s) :
                      s[i] = Sep /\ \A j \in 1..(i - 1) : s[j] # Sep
         IN  <<SubSeq(s, 1, k - 1)>> \o Split(SubSeq(s, k + 1, Len(s)))

Dot == <<".">>
DotDot == <<".", ".">>

\* normalizeString: drops empty and "." segments, resolves ".." against the
\* segment before it; above the start ".." is kept (allowAboveRoot) or dropped
RECURSIVE NormalizeSegs(_, _, _)
NormalizeSegs(segs, acc, allowAboveRoot) ==
    IF segs = <<>> THEN acc
    ELSE LET s == Head(segs)
             rest == Tail(segs)
         IN  IF s = <<>> \/ s = Dot
             THEN NormalizeSegs(rest, acc, allowAboveRoot)
             ELSE IF s = DotDot
             THEN IF acc # <<>> /\ acc[Len(acc)] # DotDot
                  THEN NormalizeSegs(rest, SubSeq(acc, 1, Len(acc) - 1), allowAboveRoot)
                  ELSE IF allowAboveRoot
                  THEN NormalizeSegs(rest, Append(acc, s), allowAboveRoot)
                  ELSE NormalizeSegs(rest, acc, allowAboveRoot)
             ELSE NormalizeSegs(rest, Append(acc, s), allowAboveRoot)

\* path.isAbsolute
IsAbsolute(p) == Len(p) > 0 /\ p[1] = Sep

\* path.normalize
Normalize(p) ==
    IF Len(p) = 0 THEN Dot
    ELSE LET abs == IsAbsolute(p)
             trailing == p[Len(p)] = Sep
             body == Join(NormalizeSegs(Split(p), <<>>, ~abs))
         IN  IF Len(body) = 0
             THEN IF abs THEN <<Sep>> ELSE IF trailing THEN <<".", Sep>> ELSE Dot
             ELSE (IF abs THEN <<Sep>> ELSE <<>>) \o body
                  \o (IF trailing THEN <<Sep>> ELSE <<>>)

\* path.resolve(root, p) for an absolute root and a relative p
PathResolve(root, p) ==
    <<Sep>> \o Join(NormalizeSegs(Split(root) \o Split(p), <<>>, FALSE))

\* String.prototype.startsWith
StartsWith(s, prefix) ==
    Len(prefix) <= Len(s) /\ SubSeq(s, 1, Len(prefix)) = prefix

\* The files on disk, each the sequence of its path segments; the
\* directories are the proper prefixes of the files.
DiskFiles ==
    { << <<"a">>, <<"a">> >>,
      << <<"a", "b">>, <<"a">> >>,
      << <<"b">>, <<"a">> >>,
      << <<"a">>, <<"b">>, <<"b">> >> }

IsFile(segs) == segs \in DiskFiles

IsDirectory(segs) ==
    \E f \in DiskFiles : Len(segs) < Len(f) /\ SubSeq(f, 1, Len(segs)) = segs

\* The kernel's walk of an absolute path from the directory cur: empty and
\* "." segments stay, ".." goes to the parent, a name goes to that entry of
\* cur; every step but the last needs cur to be a directory.  The value is
\* the entry reached, or <<"ENOENT">> (no file has a segment of that name).
NoEntry == << <<"E", "N", "O", "E", "N", "T">> >>

RECURSIVE Walk(_, _)
Walk(segs, cur) ==
    IF segs = <<>> THEN cur
    ELSE IF ~IsDirectory(cur) THEN NoEntry
    ELSE LET s == Head(segs)
         IN  IF s = <<>> \/ s = Dot THEN Walk(Tail(segs), cur)
             ELSE IF s = DotDot
             THEN Walk(Tail(segs), IF cur = <<>> THEN cur
                                   ELSE SubSeq(cur, 1, Len(cur) - 1))
             ELSE IF IsFile(Append(cur, s)) \/ IsDirectory(Append(cur, s))
             THEN Walk(Tail(segs), Append(cur, s))
             ELSE NoEntry

\* fs.existsSync of an absolute path
ExistsSync(p) == IsAbsolute(p) /\ Walk(Split(p), <<>>) # NoEntry

\* ------------------------------------------------------------------------
\* resolveScriptPath
\* ------------------------------------------------------------------------

\* isPathInScriptRoots
IsPathInScriptRootsNoBoundary(absolutePath, rs) ==
    LET normalizedPath == Normalize(absolutePath)
    IN  \E i \in 1..Len(rs) :
            StartsWith(normalizedPath, Normalize(rs[i]))

IsPathInScriptRoots(absolutePath, rs) ==
    LET normalizedPath == Normalize(absolutePath)
    IN  \E i \in 1..Len(rs) :
            LET normalizedRoot == Normalize(rs[i])
            IN  /\ StartsWith(normalizedPath, normalizedRoot)
                /\ \/ Len(normalizedPath) = Len(normalizedRoot)
                   \/ normalizedPath[Len(normalizedRoot) + 1] = Sep

NotFound == [found |-> FALSE]

Found(absolutePath, root) ==
    [found |-> TRUE, absolutePath |-> absolutePath, root |-> root]

\* roots.find(...) of the absolute branch: the first root whose normalized
\* form is a string prefix of the normalized path
FindRoot(p, rs) ==
    LET hits == {i \in 1..Len(rs) : StartsWith(Normalize(p), Normalize(rs[i]))}
    IN  IF hits = {} THEN NotFound
        ELSE Found(p, rs[CHOOSE i \in hits : \A j \in hits : i <= j])

\* the loop of the relative branch, from root number i on
RECURSIVE TryRoots(_, _, _)
TryRoots(p, rs, i) ==
    IF i > Len(rs) THEN NotFound
    ELSE LET absolutePath == PathResolve(rs[i], p)
         IN  IF IsPathInScriptRoots(absolutePath, rs) /\ ExistsSync(absolutePath)
             THEN Found(absolutePath, rs[i])
             ELSE TryRoots(p, rs, i + 1)

ResolveScriptPath(p, rs) ==
    IF IsAbsolute(p)
    THEN IF IsPathInScriptRoots(p, rs) /\ ExistsSync(p)
         THEN FindRoot(p, rs)
         ELSE NotFound
    ELSE TryRoots(p, rs, 1)

\* --- the inputs ---

\* the segments a candidate path is made of
SegChoices == {<<>>, Dot, DotDot, <<"a">>, <<"a", "b">>, <<"b">>}

RECURSIVE SegSeqs(_)
SegSeqs(n) ==
    IF n = 0 THEN {<<>>}
    ELSE LET shorter == SegSeqs(n - 1)
         IN  shorter \cup {Append(q, s) : q \in {t \in shorter : Len(t) = n - 1},
                                          s \in SegChoices}

\* the candidates: up to MaxSegs segments, relative or absolute
Candidates ==
    {Join(q) : q \in SegSeqs(MaxSegs)}
        \cup {<<Sep>> \o Join(q) : q \in SegSeqs(MaxSegs)}

\* The Root Sets: getScriptRoots() yields path.resolve()d and path.join()ed
\* directories, which are absolute, normalized and have no trailing separator.
RootA == <<"/", "a">>
RootAB == <<"/", "a", "b">>
RootB == <<"/", "b">>
RootAsubB == <<"/", "a", "/", "b">>

RootSets ==
    { <<>>, <<RootA>>, <<RootAB>>, <<RootA, RootAB>>, <<RootAB, RootA>>,
      <<RootA, RootB>>, <<RootB, RootA>>, <<RootAsubB, RootA>>,
      <<RootA, RootAsubB>> }

ResolveInit ==
    /\ roots \in RootSets
    /\ filePath \in Candidates
    /\ resolvePc = "call"
    /\ resolved = NotFound

ResolveIdle ==
    /\ roots = <<>>
    /\ filePath = <<>>
    /\ resolvePc = "done"
    /\ resolved = NotFound

\* one call of resolveScriptPath(filePath, roots)
CallResolveScriptPath ==
    /\ resolvePc = "call"
    /\ resolved' = ResolveScriptPath(filePath, roots)
    /\ resolvePc' = "done"
    /\ UNCHANGED <<roots, filePath, runVars, toolVars>>

\* --- isPathInScriptRoots called on its own ---

\* Root Sets in the spellings a Root Set can have: path.resolve() keeps the
\* file system root "/" (UE_AS_EXTRA_SCRIPT_ROOTS=/), and a root written
\* with a trailing separator keeps it under path.normalize()
RootSlash == <<"/">>
RootATrailing == <<"/", "a", "/">>

RootSpellings ==
    { <<>>, <<RootA>>, <<RootSlash>>, <<RootATrailing>>, <<RootB, RootA>>,
      <<RootAB, RootATrailing>>, <<RootAsubB>>, <<RootB, RootSlash>> }

AbsoluteCandidates == {p \in Candidates : IsAbsolute(p)}

ConfineInit ==
    /\ roots \in RootSpellings
    /\ filePath \in AbsoluteCandidates
    /\ resolvePc = "done"
    /\ resolved = NotFound
    /\ confPc = "call"
    /\ inRoots = FALSE

ConfineIdle ==
    /\ confPc = "done"
    /\ inRoots = FALSE

\* one call of isPathInScriptRoots(filePath, roots)
CallIsPathInScriptRoots ==
    /\ confPc = "call"
    /\ inRoots' = IsPathInScriptRoots(filePath, roots)
    /\ confPc' = "done"
    /\ UNCHANGED <<runVars, resVars, scanVars, searchVars, readVars>>

\* ------------------------------------------------------------------------
\* scanForScripts
\* ------------------------------------------------------------------------

\* --- the disk scanned: entries by their path, a sequence of names ---

NameA_as == <<"a", ".", "a", "s">>
NameB_as == <<"B", ".", "a", "s">>
Nameb_as == <<"b", ".", "a", "s">>
NameSub == <<"s", "u", "b">>
NameSaved == <<"S", "a", "v", "e", "d">>

\* the names of the entries inside the script roots
EntryNames == {NameA_as, NameB_as, Nameb_as, NameSub, NameSaved}

DirP == <<"p">>
DirQ == <<"q">>
DirK == <<"k">>
FileF == <<"f">>

Entry(path, type, size) == [path |-> path, type |-> type, size |-> size]

\* type "dir" is a directory, "file" a regular file, "link" a symbolic
\* link (a Dirent that is neither isDirectory() nor isFile())
ScanDisk ==
    { Entry(<<DirP>>, "dir", 0),
      Entry(<<DirP, NameA_as>>, "file", 10),
      Entry(<<DirP, NameB_as>>, "file", 20),
      Entry(<<DirP, NameSub>>, "dir", 0),
      Entry(<<DirP, NameSub, NameA_as>>, "file", 30),
      Entry(<<DirP, NameSub, NameB_as>>, "link", 0),
      Entry(<<DirP, NameSaved>>, "dir", 0),
      Entry(<<DirP, NameSaved, NameA_as>>, "file", 40),
      Entry(<<DirQ>>, "dir", 0),
      Entry(<<DirQ, NameA_as>>, "file", 50),
      Entry(<<DirQ, Nameb_as>>, "dir", 0),
      Entry(<<DirQ, Nameb_as, NameB_as>>, "file", 60),
      Entry(<<DirQ, NameSub>>, "file", 70),
      Entry(<<DirK>>, "dir", 0),
      Entry(<<DirK, NameSaved>>, "dir", 0),
      Entry(<<DirK, NameSaved, Nameb_as>>, "file", 80),
      Entry(<<FileF>>, "file", 90) }

\* the names along an absolute path
Segments(p) == NormalizeSegs(Split(p), <<>>, FALSE)

\* the entry at a path, or an entry of type "none"
EntryAt(segs) ==
    IF \E e \in ScanDisk : e.path = segs
    THEN CHOOSE e \in ScanDisk : e.path = segs
    ELSE Entry(segs, "none", 0)

\* the entry a path string names
EntryOf(p) == EntryAt(Segments(p))

\* the orders in which the disk can enumerate names
EnumOrders ==
    {o \in [1..Cardinality(EntryNames) -> EntryNames] :
        \A i, j \in DOMAIN o : i # j => o[i] # o[j]}

\* fs.readdirSync(dir, {withFileTypes: true}): the names of the entries of
\* dir, in the order ord
Readdir(dir, ord) ==
    SelectSeq(ord, LAMBDA n : EntryAt(Append(Segments(dir), n)).type # "none")

\* fs.readdirSync(dir) throws
ReaddirFails(dir) ==
    \/ EntryOf(dir).type # "dir"
    \/ Segments(dir) \in unreadable

\* fs.statSync(p) throws
StatFails(p) ==
    \/ EntryOf(p).type = "none"
    \/ Segments(p) \in unstatable

\* --- node's path.join and path.relative ---

\* path.join(dir, name)
PathJoin(dir, name) == Normalize(dir \o <<Sep>> \o name)

\* length of the longest common prefix of two sequences
RECURSIVE CommonLen(_, _)
CommonLen(a, b) ==
    IF a = <<>> \/ b = <<>> \/ Head(a) # Head(b) THEN 0
    ELSE 1 + CommonLen(Tail(a), Tail(b))

\* path.relative(from, to) of two absolute paths
PathRelative(from, to) ==
    LET f == Segments(from)
        t == Segments(to)
        c == CommonLen(f, t)
    IN  Join([i \in 1..(Len(f) - c) |-> DotDot] \o SubSeq(t, c + 1, Len(t)))

\* relativePath.replace(/\\/g, "/")
ForwardSlashes(p) == [i \in 1..Len(p) |-> IF p[i] = "\\" THEN Sep ELSE p[i]]

\* String.prototype.endsWith
EndsWith(str, suffix) ==
    /\ Len(suffix) <= Len(str)
    /\ SubSeq(str, Len(str) - Len(suffix) + 1, Len(str)) = suffix

DotAs == <<".", "a", "s">>

\* --- SKIP_DIRS ---

SKIP_DIRS ==
    { <<"n", "o", "d", "e", "_", "m", "o", "d", "u", "l", "e", "s">>,
      <<".", "g", "i", "t">>,
      <<"I", "n", "t", "e", "r", "m", "e", "d", "i", "a", "t", "e">>,
      NameSaved,
      <<"_", "_", "p", "y", "c", "a", "c", "h", "e", "_", "_">>,
      <<"B", "i", "n", "a", "r", "i", "e", "s">>,
      <<".", "v", "s", "c", "o", "d", "e">>,
      <<".", "i", "d", "e", "a">> }

NeverSkipped(name) == FALSE

\* SKIP_DIRS.has(entry.name)
SkipDirsHas(name) == name \in SKIP_DIRS

\* --- scanDirectory ---

ScriptFile(fullPath, rootDir) ==
    [absolutePath |-> fullPath,
     relativePath |-> ForwardSlashes(PathRelative(rootDir, fullPath)),
     root |-> rootDir,
     size |-> EntryOf(fullPath).size]

RECURSIVE ScanDirectory(_, _, _, _)
RECURSIVE ScanEntries(_, _, _, _, _)

\* the for loop, were a failing fs.statSync to end the scan of dir
RECURSIVE ScanEntriesStatAborts(_, _, _, _, _)
ScanEntriesStatAborts(dir, rootDir, entries, results, ord) ==
    IF entries = <<>> THEN results
    ELSE LET name == Head(entries)
             fullPath == PathJoin(dir, name)
             type == EntryOf(fullPath).type
         IN  IF type = "dir"
             THEN IF SkipDirsHas(name)
                  THEN ScanEntriesStatAborts(dir, rootDir, Tail(entries), results, ord)
                  ELSE ScanEntriesStatAborts(dir, rootDir, Tail(entries),
                                   ScanDirectory(fullPath, rootDir, results, ord), ord)
             ELSE IF type = "file" /\ EndsWith(name, DotAs)
             THEN IF StatFails(fullPath)
                  THEN results
                  ELSE ScanEntriesStatAborts(dir, rootDir, Tail(entries),
                                   Append(results, ScriptFile(fullPath, rootDir)), ord)
             ELSE ScanEntriesStatAborts(dir, rootDir, Tail(entries), results, ord)

\* the for loop over the entries of dir, from the entries left on
ScanEntries(dir, rootDir, entries, results, ord) ==
    IF entries = <<>> THEN results
    ELSE LET name == Head(entries)
             fullPath == PathJoin(dir, name)
             type == EntryOf(fullPath).type
         IN  IF type = "dir"
             THEN IF SkipDirsHas(name)
                  THEN ScanEntries(dir, rootDir, Tail(entries), results, ord)
                  ELSE ScanEntries(dir, rootDir, Tail(entries),
                                   ScanDirectory(fullPath, rootDir, results, ord), ord)
             ELSE IF type = "file" /\ EndsWith(name, DotAs)
             THEN IF StatFails(fullPath)
                  THEN ScanEntries(dir, rootDir, Tail(entries), results, ord)
                  ELSE ScanEntries(dir, rootDir, Tail(entries),
                                   Append(results, ScriptFile(fullPath, rootDir)), ord)
             ELSE ScanEntries(dir, rootDir, Tail(entries), results, ord)

\* scanDirectory(dir, rootDir, results): the results array afterwards
ScanDirectory(dir, rootDir, results, ord) ==
    IF ReaddirFails(dir) THEN results
    ELSE ScanEntries(dir, rootDir, Readdir(dir, ord), results, ord)

\* --- the sort ---

\* The collation of String.prototype.localeCompare (the root collation of
\* ICU) on the characters of the relative paths: punctuation before
\* letters, letters in alphabetical order whatever their case, and for
\* strings that differ in case only, lower case first.
CollationOrder == <<".", "/", "a", "b", "d", "e", "s", "u", "v">>

IsUpper(c) == c \in {"B", "S"}

ToLower(c) == IF c = "B" THEN "b" ELSE IF c = "S" THEN "s" ELSE c

PrimaryWeight(c) ==
    CHOOSE i \in 1..Len(CollationOrder) : CollationOrder[i] = ToLower(c)

TertiaryWeight(c) == IF IsUpper(c) THEN 1 ELSE 0

\* lexicographic comparison of two sequences of numbers: -1, 0 or 1
RECURSIVE CompareSeq(_, _)
CompareSeq(a, b) ==
    IF a = <<>> THEN (IF b = <<>> THEN 0 ELSE -1)
    ELSE IF b = <<>> THEN 1
    ELSE IF Head(a) < Head(b) THEN -1
    ELSE IF Head(a) > Head(b) THEN 1
    ELSE CompareSeq(Tail(a), Tail(b))

\* a.localeCompare(b)
LocaleCompare(a, b) ==
    LET primary == CompareSeq([i \in 1..Len(a) |-> PrimaryWeight(a[i])],
                              [i \in 1..Len(b) |-> PrimaryWeight(b[i])])
    IN  IF primary # 0 THEN primary
        ELSE CompareSeq([i \in 1..Len(a) |-> TertiaryWeight(a[i])],
                        [i \in 1..Len(b) |-> TertiaryWeight(b[i])])

\* the comparator of results.sort
CompareFiles(a, b) == LocaleCompare(a.relativePath, b.relativePath)

\* x put in front of the elements that compare equal to it
RECURSIVE InsertBeforeEqual(_, _)
InsertBeforeEqual(sorted, x) ==
    IF sorted = <<>> THEN <<x>>
    ELSE IF CompareFiles(x, Head(sorted)) <= 0 THEN <<x>> \o sorted
    ELSE <<Head(sorted)>> \o InsertBeforeEqual(Tail(sorted), x)

\* x put into the sorted sequence, behind the elements that do not
\* compare greater than it
RECURSIVE InsertSorted(_, _)
InsertSorted(sorted, x) ==
    IF sorted = <<>> THEN <<x>>
    ELSE IF CompareFiles(x, Head(sorted)) < 0 THEN <<x>> \o sorted
    ELSE <<Head(sorted)>> \o InsertSorted(Tail(sorted), x)

\* Array.prototype.sort, a stable sort
RECURSIVE SortFiles(_, _)
SortFiles(files, sorted) ==
    IF files = <<>> THEN sorted
    ELSE SortFiles(Tail(files), InsertSorted(sorted, Head(files)))

\* --- scanForScripts ---

\* the for loop over the roots, from root number i on
RECURSIVE ScanRoots(_, _, _, _)
ScanRoots(rs, i, results, ord) ==
    IF i > Len(rs) THEN results
    ELSE IF StatFails(rs[i]) \/ EntryOf(rs[i]).type # "dir"
    THEN ScanRoots(rs, i + 1, results, ord)
    ELSE ScanRoots(rs, i + 1, ScanDirectory(rs[i], rs[i], results, ord), ord)

\* the scan without the final sort
ScanForScriptsNoSort(rs, ord) == ScanRoots(rs, 1, <<>>, ord)

ScanForScripts(rs, ord) == SortFiles(ScanRoots(rs, 1, <<>>, ord), <<>>)

\* --- the inputs ---

RootP == <<"/", "p">>
RootQ == <<"/", "q">>
RootK == <<"/", "k">>
RootF == <<"/", "f">>
RootN == <<"/", "n">>
RootPSub == <<"/", "p", "/", "s", "u", "b">>

ScanRootSets ==
    { <<>>, <<RootP>>, <<RootQ>>, <<RootP, RootQ>>, <<RootQ, RootP>>,
      <<RootK>>, <<RootF, RootP>>, <<RootN, RootQ>>, <<RootP, RootPSub>>,
      <<RootK, RootQ, RootP>> }

\* roots spelled with a trailing separator or with segments that
\* path.normalize would remove
RootPTrailing == <<"/", "p", "/">>
RootPDot == <<"/", "p", "/", ".">>
RootQDotDot == <<"/", "p", "/", ".", ".", "/", "q">>

SpelledRootSets ==
    { <<RootP>>, <<RootPTrailing>>, <<RootQDotDot>>, <<RootPDot, RootQ>>,
      <<RootPTrailing, RootP>>, <<RootQ, RootPTrailing>> }

UnreadableSets == { {}, {<<DirP, NameSub>>}, {<<DirQ>>} }

UnstatableSets == { {}, {<<DirP, NameA_as>>} }

ScanInit ==
    /\ scanRoots \in ScanRootSets
    /\ unreadable \in UnreadableSets
    /\ unstatable \in UnstatableSets
    /\ scanCalls = 0
    /\ lastScan = <<>>
    /\ prevScan = <<>>

ScanSpelledInit ==
    /\ scanRoots \in SpelledRootSets
    /\ unreadable \in UnreadableSets
    /\ unstatable \in UnstatableSets
    /\ scanCalls = 0
    /\ lastScan = <<>>
    /\ prevScan = <<>>

ScanIdle ==
    /\ scanRoots = <<>>
    /\ unreadable = {}
    /\ unstatable = {}
    /\ scanCalls = 0
    /\ lastScan = <<>>
    /\ prevScan = <<>>

\* one call of scanForScripts(scanRoots); the disk enumerates its
\* directories in some order
CallScanForScripts ==
    /\ scanCalls < MaxScanCalls
    /\ \E ord \in EnumOrders : lastScan' = ScanForScripts(scanRoots, ord)
    /\ prevScan' = lastScan
    /\ scanCalls' = scanCalls + 1
    /\ UNCHANGED <<scanRoots, unreadable, unstatable, runVars, resVars, confVars,
                   searchVars, readVars>>

\* ------------------------------------------------------------------------
\* searchInFile
\* ------------------------------------------------------------------------

Newline == "\n"

\* content.split("\n")
RECURSIVE SplitLines(_)
SplitLines(content) ==
    IF \A i \in 1..Len(content) : content[i] # Newline THEN <<content>>
    ELSE LET k == CHOOSE i \in 1..Len(content) :
                      content[i] = Newline
                      /\ \A j \in 1..(i - 1) : content[j] # Newline
         IN  <<SubSeq(content, 1, k - 1)>>
                 \o SplitLines(SubSeq(content, k + 1, Len(content)))

\* The patterns: "x" matches at every character x of a line, "^$" matches
\* the empty line, "(" is not a regular expression.
ValidPatterns == {"x", "^$"}

Patterns == ValidPatterns \union {"("}

\* new RegExp(pattern) throws
RegExpThrows(p) == p \notin ValidPatterns

\* the number of positions of a line at which the expression matches
Occurrences(regex, line) ==
    IF regex = "x" THEN Cardinality({i \in 1..Len(line) : line[i] = "x"})
    ELSE IF line = <<>> THEN 1 ELSE 0

\* regex.test(line), of an expression without flags
Test(regex, line) == Occurrences(regex, line) > 0

MathMax(a, b) == IF a >= b THEN a ELSE b

MathMin(a, b) == IF a <= b THEN a ELSE b

Undefined == <<"u", "n", "d", "e", "f", "i", "n", "e", "d">>

\* lines[j] in a template literal, j counted from 0
LineAt(lines, j) == IF j + 1 \in DOMAIN lines THEN lines[j + 1] ELSE Undefined

\* `${j + 1}:\t${lines[j]}`
ContextLine(lines, j) == [lineNumber |-> j + 1, content |-> LineAt(lines, j)]

\* contextBefore, were the first index not clamped
ContextBeforeNoClamp(lines, i, contextLines) ==
    [k \in 1..contextLines |-> ContextLine(lines, i - contextLines + k - 1)]

\* contextBefore of the match at index i
ContextBefore(lines, i, contextLines) ==
    LET from == MathMax(0, i - contextLines)
    IN  [k \in 1..(i - from) |-> ContextLine(lines, from + k - 1)]

\* contextAfter of the match at index i
ContextAfter(lines, i, contextLines) ==
    LET to == MathMin(Len(lines) - 1, i + contextLines)
    IN  [k \in 1..(to - i) |-> ContextLine(lines, i + k)]

\* the entry pushed for the match at index i
SearchMatch(lines, i, contextLines) ==
    [line |-> i + 1,
     content |-> LineAt(lines, i),
     context |-> ContextBefore(lines, i, contextLines)
                     \o <<ContextLine(lines, i)>>
                     \o ContextAfter(lines, i, contextLines)]

\* the entries pushed k times over
RECURSIVE Repeat(_, _)
Repeat(x, k) == IF k = 0 THEN <<>> ELSE <<x>> \o Repeat(x, k - 1)

\* the for loop, were an entry pushed for every match position
RECURSIVE SearchLinesPerOccurrence(_, _, _, _, _)
SearchLinesPerOccurrence(lines, regex, contextLines, i, matches) ==
    IF i >= Len(lines) THEN matches
    ELSE SearchLinesPerOccurrence(lines, regex, contextLines, i + 1,
             matches \o Repeat(SearchMatch(lines, i, contextLines),
                               Occurrences(regex, LineAt(lines, i))))

\* the for loop over the lines, from index i on
RECURSIVE SearchLines(_, _, _, _, _)
SearchLines(lines, regex, contextLines, i, matches) ==
    IF i >= Len(lines) THEN matches
    ELSE IF Test(regex, LineAt(lines, i))
    THEN SearchLines(lines, regex, contextLines, i + 1,
                     Append(matches, SearchMatch(lines, i, contextLines)))
    ELSE SearchLines(lines, regex, contextLines, i + 1, matches)

\* fs.readFileSync(p, "utf-8") throws
ReadFails(p) ==
    \/ Segments(p) \notin DOMAIN contents
    \/ Segments(p) \in readFails

\* fs.readFileSync(p, "utf-8")
ReadFileSync(p) == contents[Segments(p)]

\* searchInFile(file, pattern, contextLines)
SearchInFile(file, regex, contextLines) ==
    IF ReadFails(file.absolutePath) THEN <<>>
    ELSE SearchLines(SplitLines(ReadFileSync(file.absolutePath)), regex,
                     contextLines, 0, <<>>)

\* --- the search loop of the as_search_scripts handler ---

\* results, matchCount and the files read, before the loop
NoResults == [results |-> <<>>, matchCount |-> 0, read |-> <<>>]

\* the inner loop over the matches of a file, from match number k on
RECURSIVE PushMatches(_, _, _, _, _)
PushMatches(file, matches, k, max, acc) ==
    IF k > Len(matches) \/ acc.matchCount >= max THEN acc
    ELSE PushMatches(file, matches, k + 1, max,
             [acc EXCEPT !.results =
                             Append(@, [relativePath |-> file.relativePath,
                                        line |-> matches[k].line,
                                        context |-> matches[k].context]),
                         !.matchCount = @ + 1])

\* the loop over the files, were it to run on after the cap
RECURSIVE SearchLoopNoBreak(_, _, _, _, _, _)
SearchLoopNoBreak(fs, regex, contextLines, max, k, acc) ==
    IF k > Len(fs) THEN acc
    ELSE SearchLoopNoBreak(fs, regex, contextLines, max, k + 1,
             PushMatches(fs[k], SearchInFile(fs[k], regex, contextLines), 1, max,
                         [acc EXCEPT !.read = Append(@, fs[k].absolutePath)]))

\* the loop over the files, were a read failure to end it
RECURSIVE SearchLoopReadFailureAborts(_, _, _, _, _, _)
SearchLoopReadFailureAborts(fs, regex, contextLines, max, k, acc) ==
    IF k > Len(fs) \/ acc.matchCount >= max THEN acc
    ELSE IF ReadFails(fs[k].absolutePath)
    THEN [acc EXCEPT !.read = Append(@, fs[k].absolutePath)]
    ELSE SearchLoopReadFailureAborts(fs, regex, contextLines, max, k + 1,
             PushMatches(fs[k], SearchInFile(fs[k], regex, contextLines), 1, max,
                         [acc EXCEPT !.read = Append(@, fs[k].absolutePath)]))

\* the loop over the files, from file number k on
RECURSIVE SearchLoop(_, _, _, _, _, _)
SearchLoop(fs, regex, contextLines, max, k, acc) ==
    IF k > Len(fs) \/ acc.matchCount >= max THEN acc
    ELSE SearchLoop(fs, regex, contextLines, max, k + 1,
             PushMatches(fs[k], SearchInFile(fs[k], regex, contextLines), 1, max,
                         [acc EXCEPT !.read = Append(@, fs[k].absolutePath)]))

\* --- the inputs ---

Chars == {"x", "o", Newline}

\* the texts of at most MaxContentLen characters
Contents == UNION {[1..n -> Chars] : n \in 0..MaxContentLen}

\* the file searchInFile is called on
SearchedPath == <<DirP, NameA_as>>

SearchedFile == ScriptFile(PathJoin(RootP, NameA_as), RootP)

\* the paths of the files of the disk
FilePaths == {e.path : e \in {d \in ScanDisk : d.type = "file"}}

\* the texts of the files of the disk
DiskContents ==
    [p \in FilePaths |->
        CASE p = <<DirP, NameA_as>> -> <<"x", Newline, "x">>
          [] p = <<DirP, NameB_as>> -> <<"o", Newline, "x", "x">>
          [] p = <<DirQ, NameA_as>> -> <<"o">>
          [] p = <<DirQ, Nameb_as, NameB_as>> ->
                 <<"x", Newline, "o", Newline, "x", Newline>>
          [] OTHER -> <<"x">>]

SearchOutIdle ==
    /\ fileMatches = <<>>
    /\ outcome = "none"
    /\ didScan = FALSE
    /\ searchFiles = <<>>
    /\ filesRead = <<>>
    /\ searchResults = <<>>
    /\ matchCount = 0

SearchFileInit ==
    /\ contents \in {[p \in {SearchedPath} |-> c] : c \in Contents}
    /\ readFails \in {{}, {SearchedPath}}
    /\ pattern \in ValidPatterns
    /\ context_lines \in 0..MaxContext
    /\ max_results = 0
    /\ searchPc = "file"
    /\ SearchOutIdle

SearchHandlerInit ==
    /\ contents = DiskContents
    /\ readFails \in {{}, {<<DirP, NameA_as>>}}
    /\ pattern \in Patterns
    /\ context_lines \in {0, MaxContext}
    /\ max_results \in 0..MaxCap
    /\ searchPc = "handler"
    /\ SearchOutIdle

SearchIdle ==
    /\ contents = <<>>
    /\ readFails = {}
    /\ pattern = "x"
    /\ context_lines = 0
    /\ max_results = 0
    /\ searchPc = "done"
    /\ SearchOutIdle

\* one call of searchInFile
CallSearchInFile ==
    /\ searchPc = "file"
    /\ fileMatches' = SearchInFile(SearchedFile, pattern, context_lines)
    /\ searchPc' = "done"
    /\ UNCHANGED <<outcome, didScan, searchFiles, filesRead, searchResults,
                   matchCount, searchIn, runVars, resVars, confVars, scanVars,
                   readVars>>

\* the handler returns an error before the scan
SearchScriptsFails(error) ==
    /\ searchPc = "handler"
    /\ outcome' = error
    /\ searchPc' = "done"
    /\ UNCHANGED <<fileMatches, didScan, searchFiles, filesRead, searchResults,
                   matchCount, searchIn, runVars, resVars, confVars, scanVars,
                   readVars>>

\* the handler scans and searches
SearchScriptsSearches ==
    /\ searchPc = "handler"
    /\ \E ord \in EnumOrders :
           \E fs \in {ScanForScripts(scanRoots, ord)} :
           \E acc \in {SearchLoop(fs, pattern, context_lines, max_results, 1,
                                   NoResults)} :
               /\ searchFiles' = fs
               /\ filesRead' = acc.read
               /\ searchResults' = acc.results
               /\ matchCount' = acc.matchCount
    /\ didScan' = TRUE
    /\ outcome' = "Searched"
    /\ searchPc' = "done"
    /\ UNCHANGED <<fileMatches, searchIn, runVars, resVars, confVars, scanVars,
                   readVars>>

\* the handler, were the pattern compiled after the scan
CallSearchScriptsCompileLate ==
    IF scanRoots = <<>> THEN SearchScriptsFails("NoScriptRoots")
    ELSE IF RegExpThrows(pattern)
    THEN /\ searchPc = "handler"
         /\ \E ord \in EnumOrders : searchFiles' = ScanForScripts(scanRoots, ord)
         /\ didScan' = TRUE
         /\ outcome' = "InvalidPattern"
         /\ searchPc' = "done"
         /\ UNCHANGED <<fileMatches, filesRead, searchResults, matchCount,
                        searchIn, runVars, resVars, confVars, scanVars,
                   readVars>>
    ELSE SearchScriptsSearches

\* the as_search_scripts handler, the project path being configured and
\* scanRoots what getScriptRoots() returns
CallSearchScripts ==
    IF scanRoots = <<>> THEN SearchScriptsFails("NoScriptRoots")
    ELSE IF RegExpThrows(pattern) THEN SearchScriptsFails("InvalidPattern")
    ELSE SearchScriptsSearches

\* ------------------------------------------------------------------------
\* readFileWithLines
\* ------------------------------------------------------------------------

\* an optional number argument: left out, or given
Missing == [given |-> FALSE]

Given(n) == [given |-> TRUE, value |-> n]

\* the argument is truthy: given and not 0
Truthy(arg) == arg.given /\ arg.value # 0

\* Array.prototype.slice(start, end) of whole numbers: a negative index
\* counts from the end
RelativeIndex(k, len) ==
    IF k < 0 THEN MathMax(len + k, 0) ELSE MathMin(k, len)

Slice(arr, start, end) ==
    SubSeq(arr, RelativeIndex(start, Len(arr)) + 1, RelativeIndex(end, Len(arr)))

\* the first index of the slice
ReadStart(startLine) ==
    IF Truthy(startLine) THEN MathMax(1, startLine.value) - 1 ELSE 0

\* the end index of the slice
ReadEnd(lines, endLine) ==
    IF Truthy(endLine) THEN MathMin(Len(lines), endLine.value) ELSE Len(lines)

\* selectedLines.map((line, idx) => `${start + idx + 1}:\t${line}`)
NumberLines(selectedLines, start) ==
    [k \in 1..Len(selectedLines) |->
        [lineNumber |-> start + (k - 1) + 1, content |-> selectedLines[k]]]

\* readFileWithLines(filePath, startLine, endLine): the lines joined
ReadFileWithLines(path, startLine, endLine) ==
    LET lines == SplitLines(ReadFileSync(path))
    IN  NumberLines(Slice(lines, ReadStart(startLine), ReadEnd(lines, endLine)),
                    ReadStart(startLine))

\* --- the inputs ---

LineArgs == {Missing} \union {Given(n) : n \in (0 - MaxLineArg)..MaxLineArg}

\* the disk holds the file read; nothing else of a search is in use
ReadDiskInit ==
    /\ contents \in {[p \in {SearchedPath} |-> c] : c \in Contents}
    /\ readFails = {}
    /\ pattern = "x"
    /\ context_lines = 0
    /\ max_results = 0
    /\ searchPc = "done"
    /\ SearchOutIdle

ReadInit ==
    /\ start_line \in LineArgs
    /\ end_line \in LineArgs
    /\ readPc = "call"
    /\ readOut = <<>>

ReadIdle ==
    /\ start_line = Missing
    /\ end_line = Missing
    /\ readPc = "done"
    /\ readOut = <<>>

\* one call of readFileWithLines on a file that can be read
CallReadFileWithLines ==
    /\ readPc = "call"
    /\ readOut' = ReadFileWithLines(SearchedFile.absolutePath, start_line, end_line)
    /\ readPc' = "done"
    /\ UNCHANGED <<start_line, end_line, runVars, resVars, confVars, scanVars,
                   searchVars>>

ToolsIdle == ConfineIdle /\ ScanIdle /\ SearchIdle /\ ReadIdle

Init == RunInit /\ ResolveIdle /\ ToolsIdle

Next ==
    \/ \E c \in ExitCodes : Exit(c) /\ UNCHANGED <<resVars, toolVars>>
    \/ \E n \in ChunkSizes : StdoutData(n) /\ UNCHANGED <<resVars, toolVars>>
    \/ \E n \in ChunkSizes : StderrData(n) /\ UNCHANGED <<resVars, toolVars>>
    \/ TimeoutCallback /\ UNCHANGED <<resVars, toolVars>>
    \/ OnClose /\ UNCHANGED <<resVars, toolVars>>
    \/ OnError /\ UNCHANGED <<resVars, toolVars>>

Spec == Init /\ [][Next]_vars

\* The timer eventually fires, and node eventually delivers the
\* notifications of a child that has ended or could not be launched.
FairSpec ==
    /\ Init
    /\ [][Next]_vars
    /\ WF_vars(TimeoutCallback /\ UNCHANGED <<resVars, toolVars>>)
    /\ WF_vars(OnClose /\ UNCHANGED <<resVars, toolVars>>)
    /\ WF_vars(OnError /\ UNCHANGED <<resVars, toolVars>>)

\* the path resolver, run idle
RunIdle ==
    /\ procState = "exited"
    /\ osExitCode = 0
    /\ spawnErrno = 0
    /\ timerArmed = FALSE
    /\ killCalls = 0
    /\ errorEmitted = FALSE
    /\ closeEmitted = TRUE
    /\ nData = 0
    /\ stdout = <<>>
    /\ stderr = <<>>
    /\ stdoutTruncated = FALSE
    /\ stderrTruncated = FALSE
    /\ timedOut = FALSE
    /\ finished = TRUE
    /\ promise = Pending
    /\ resolveCalls = 0
    /\ stdoutDropped = FALSE
    /\ stderrDropped = FALSE

ResolveNext == CallResolveScriptPath

ResolveSpecInit == ResolveInit /\ RunIdle /\ ToolsIdle

ResolveSpec == ResolveSpecInit /\ [][ResolveNext]_vars

ConfineNext == CallIsPathInScriptRoots

ConfineSpecInit == ConfineInit /\ RunIdle /\ ScanIdle /\ SearchIdle /\ ReadIdle

ConfineSpec == ConfineSpecInit /\ [][ConfineNext]_vars

ScanNext == CallScanForScripts

ScanSpecInit ==
    ScanInit /\ RunIdle /\ ResolveIdle /\ ConfineIdle /\ SearchIdle /\ ReadIdle

ScanSpec == ScanSpecInit /\ [][ScanNext]_vars

ScanSpelledSpecInit ==
    /\ ScanSpelledInit
    /\ RunIdle /\ ResolveIdle /\ ConfineIdle /\ SearchIdle /\ ReadIdle

ScanSpelledSpec == ScanSpelledSpecInit /\ [][ScanNext]_vars

SearchFileNext == CallSearchInFile

SearchFileSpecInit ==
    /\ SearchFileInit
    /\ RunIdle /\ ResolveIdle /\ ConfineIdle /\ ScanIdle /\ ReadIdle

SearchFileSpec == SearchFileSpecInit /\ [][SearchFileNext]_vars

SearchHandlerNext == CallSearchScripts

HandlerRootSets ==
    { <<>>, <<RootP>>, <<RootQ, RootP>>, <<RootK, RootQ, RootP>> }

\* the roots the handler scans; every directory and file can be read
HandlerScanInit ==
    /\ scanRoots \in HandlerRootSets
    /\ unreadable = {}
    /\ unstatable = {}
    /\ scanCalls = 0
    /\ lastScan = <<>>
    /\ prevScan = <<>>

SearchHandlerSpecInit ==
    /\ SearchHandlerInit /\ HandlerScanInit
    /\ RunIdle /\ ResolveIdle /\ ConfineIdle /\ ReadIdle

SearchHandlerSpec == SearchHandlerSpecInit /\ [][SearchHandlerNext]_vars

ReadNext == CallReadFileWithLines

ReadSpecInit ==
    /\ ReadInit /\ ReadDiskInit
    /\ RunIdle /\ ResolveIdle /\ ConfineIdle /\ ScanIdle

ReadSpec == ReadSpecInit /\ [][ReadNext]_vars

\* ------------------------------------------------------------------------
\* Properties of runCommandlet
\* ------------------------------------------------------------------------

\* the result the call produced
Result == promise.value

\* the timer killed the child, and the result says it completed
KilledReportedCompleted ==
    Resolved /\ procState = "killed" /\ ~Result.timedOut

\* the child exited on its own, and the result says it timed out
ExitedReportedTimedOut ==
    Resolved /\ procState = "exited" /\ Result.timedOut

\* C1: in every interleaving of the child's exit, 'close', 'error' and the
\* timer callback the call produces one result and never a second one, a
\* child the timer killed is never reported as completed, and a child that
\* exited on its own is never reported as timed out.
C1_OneTerminalState ==
    [][/\ Resolved => promise' = promise
       /\ ~KilledReportedCompleted'
       /\ ~ExitedReportedTimedOut']_vars

\* C2: every result with timedOut = true has an exit code other than 0, so
\* as_run_tests never prints "Status: PASSED" for a run whose timer fired.
C2_TimeoutNeverSuccess ==
    (Resolved /\ Result.timedOut) =>
        /\ Result.exitCode # 0
        /\ RunTestsStatus(Result) # "PASSED"

\* C3: when a child exited before the timer fired, the result has
\* timedOut = false and the child's exit code, the timer is disarmed and
\* no kill was issued.  (A child in state "exited" ended on its own, so
\* before any timer callback: the callback kills a child still running.)
C3_ExitBeforeTimer ==
    (procState = "exited" /\ Resolved) =>
        /\ ~Result.timedOut
        /\ Result.exitCode = osExitCode
        /\ ~timerArmed
        /\ killCalls = 0

\* C4: when the launch fails, the result has exit code -1, timedOut =
\* false and the captured stderr followed by the spawn error description;
\* the timer is disarmed and no kill is issued.
C4_SpawnFailure ==
    (procState = "spawnfailed" /\ errorEmitted) =>
        /\ Resolved
        /\ Result = [exitCode |-> -1, stdout |-> stdout,
                     stderr |-> Append(stderr, SpawnError(spawnErrno)),
                     timedOut |-> FALSE]
        /\ ~timerArmed
        /\ killCalls = 0

C4_Witness ==
    /\ procState = "spawnfailed"
    /\ errorEmitted
    /\ closeEmitted
    /\ resolveCalls = 2
    /\ Result.exitCode = -1

\* C5: whenever some data of a stream was dropped, the buffer of that
\* stream holds exactly one truncation marker.
C5_DroppedImpliesMarker ==
    /\ stdoutDropped => MarkerCount(stdout) = 1
    /\ stderrDropped => MarkerCount(stderr) = 1

\* C6: each captured buffer is at most MAX_OUTPUT_SIZE plus the length of
\* the truncation marker long and holds at most one truncation marker.
C6_OutputBound ==
    /\ BufLen(stdout) <= MAX_OUTPUT_SIZE + TruncMarkerLen
    /\ MarkerCount(stdout) <= 1
    /\ BufLen(stderr) <= MAX_OUTPUT_SIZE + TruncMarkerLen
    /\ MarkerCount(stderr) <= 1

\* stdout was truncated and more stdout data came after that
C6_Witness ==
    /\ stdoutTruncated
    /\ BufLen(stdout) = MAX_OUTPUT_SIZE + TruncMarkerLen
    /\ stderr = <<>>
    /\ nData >= 2

PathSegs(p) == NormalizeSegs(Split(p), <<>>, FALSE)

\* the path p lies in the directory r or is r
Inside(p, r) ==
    /\ Len(PathSegs(r)) <= Len(PathSegs(p))
    /\ SubSeq(PathSegs(p), 1, Len(PathSegs(r))) = PathSegs(r)

StrictlyInside(p, r) == Inside(p, r) /\ Len(PathSegs(r)) < Len(PathSegs(p))

ResolveDone == resolvePc = "done"

\* C8: every result that is not NotFound has an absolutePath inside some
\* root of the Root Set; a path outside every root yields NotFound.
C8_ResultConfined ==
    (ResolveDone /\ resolved.found) =>
        \E i \in 1..Len(roots) : Inside(resolved.absolutePath, roots[i])

\* the existing file /ab/a is not found under the root /a
C8_Witness ==
    /\ ResolveDone
    /\ roots = <<RootA>>
    /\ filePath = <<"/", "a", "b", "/", "a">>
    /\ ExistsSync(filePath)
    /\ resolved = NotFound

\* the root r confines the path p: r is a prefix of p followed by nothing
\* or by a separator
Confines(r, p) ==
    /\ StartsWith(Normalize(p), Normalize(r))
    /\ \/ Len(Normalize(p)) = Len(Normalize(r))
       \/ Normalize(p)[Len(Normalize(r)) + 1] = Sep

\* C9: for an absolute candidate that is found, the root returned is the
\* first root of the Root Set that confines the candidate.
C9_FirstConfiningRoot ==
    (ResolveDone /\ IsAbsolute(filePath) /\ resolved.found) =>
        \E i \in 1..Len(roots) :
            /\ Confines(roots[i], filePath)
            /\ \A j \in 1..(i - 1) : ~Confines(roots[j], filePath)
            /\ resolved.root = roots[i]

\* C10: for a relative candidate, root/candidate is accepted only if it
\* does not escape that root: the absolutePath returned lies inside the
\* root returned, also when it lands inside another root of the Root Set.
C10_RelativeInsideReturnedRoot ==
    (ResolveDone /\ ~IsAbsolute(filePath) /\ resolved.found) =>
        Inside(resolved.absolutePath, resolved.root)

\* the entry of the disk a found path names
ResolvedEntry == Walk(Split(resolved.absolutePath), <<>>)

\* C11: every result that is not NotFound names a file on disk, not a
\* directory; a candidate naming a directory or the root itself yields
\* NotFound.
C11_ResultIsFile ==
    (ResolveDone /\ resolved.found) => IsFile(ResolvedEntry)

\* ------------------------------------------------------------------------
\* Properties of isPathInScriptRoots
\* ------------------------------------------------------------------------

ConfineDone == confPc = "done"

\* C12: isPathInScriptRoots is true exactly for the paths that lie under
\* (or are) some root, however the root is spelled, and false for every
\* path when the Root Set is empty.
C12_TrueIffUnderARoot ==
    ConfineDone =>
        /\ inRoots <=> \E i \in 1..Len(roots) : Inside(filePath, roots[i])
        /\ roots = <<>> => ~inRoots

\* ------------------------------------------------------------------------
\* scanForScripts: the claims
\* ------------------------------------------------------------------------

Scanned == scanCalls >= 1

\* the code point of a character of a relative path
CodePoint(c) ==
    CASE c = "." -> 46 [] c = "/" -> 47 [] c = "B" -> 66 [] c = "S" -> 83
      [] c = "a" -> 97 [] c = "b" -> 98 [] c = "d" -> 100 [] c = "e" -> 101
      [] c = "s" -> 115 [] c = "u" -> 117 [] c = "v" -> 118

\* code-point lexicographic comparison of two strings
CodePointCompare(a, b) ==
    CompareSeq([i \in 1..Len(a) |-> CodePoint(a[i])],
               [i \in 1..Len(b) |-> CodePoint(b[i])])

\* C13: whatever the order the disk enumerates in and whatever roots the
\* entries come from, the sequence returned is sorted by relativePath
\* under the code-point lexicographic comparison.
C13_CodePointOrder ==
    Scanned =>
        \A x, y \in DOMAIN lastScan :
            x < y => CodePointCompare(lastScan[x].relativePath,
                                      lastScan[y].relativePath) <= 0

\* the position of a root in the Root Set
RootIndex(r) == CHOOSE i \in 1..Len(scanRoots) : scanRoots[i] = r

\* the file at the disk path e.path is a script the scan of root number i
\* can reach and stat
Reachable(i, e) ==
    LET r == Segments(scanRoots[i])
    IN  /\ e.type = "file"
        /\ EndsWith(e.path[Len(e.path)], DotAs)
        /\ e.path \notin unstatable
        /\ EntryAt(r).type = "dir"
        /\ Len(r) < Len(e.path)
        /\ SubSeq(e.path, 1, Len(r)) = r
        /\ \A k \in Len(r)..(Len(e.path) - 1) :
               SubSeq(e.path, 1, k) \notin unreadable
        /\ \A k \in (Len(r) + 1)..(Len(e.path) - 1) :
               e.path[k] \notin SKIP_DIRS

\* the result has the file e, found under root number i
Returned(i, e) ==
    \E x \in DOMAIN lastScan :
        /\ lastScan[x].root = scanRoots[i]
        /\ Segments(lastScan[x].absolutePath) = e.path

\* the path of e relative to root number i
RelativeSegs(i, e) ==
    SubSeq(e.path, Len(Segments(scanRoots[i])) + 1, Len(e.path))

\* C14: two files with the same relativePath under different roots both
\* appear in the result, in the order of their roots in the Root Set.
C14_StableRootOrder ==
    Scanned =>
        /\ \A i, j \in 1..Len(scanRoots) : \A e, f \in ScanDisk :
               (/\ i # j
                /\ Reachable(i, e)
                /\ Reachable(j, f)
                /\ RelativeSegs(i, e) = RelativeSegs(j, f))
               => Returned(i, e) /\ Returned(j, f)
        /\ \A x, y \in DOMAIN lastScan :
               (/\ x < y
                /\ lastScan[x].relativePath = lastScan[y].relativePath
                /\ lastScan[x].root # lastScan[y].root)
               => RootIndex(lastScan[x].root) < RootIndex(lastScan[y].root)

\* a scan of /q before /p returned a.as of both roots
C14_Witness ==
    /\ Scanned
    /\ scanRoots = <<RootQ, RootP>>
    /\ \E x, y \in DOMAIN lastScan :
           /\ x < y
           /\ lastScan[x].relativePath = lastScan[y].relativePath
           /\ lastScan[x].root = RootQ
           /\ lastScan[y].root = RootP

\* every entry of root r is a directory with a skip-listed name
OnlySkipDirs(r) ==
    \A e \in ScanDisk :
        (Len(e.path) = Len(Segments(r)) + 1
         /\ SubSeq(e.path, 1, Len(Segments(r))) = Segments(r))
        => (e.type = "dir" /\ e.path[Len(e.path)] \in SKIP_DIRS)

\* C15: no ScriptFile returned has a skip-listed name among the segments of
\* its relativePath, every one is a regular file whose name ends in ".as",
\* and roots that hold skip-listed directories only yield the empty
\* sequence.
C15_SkipDirsPruned ==
    Scanned =>
        /\ \A x \in DOMAIN lastScan :
               /\ \A k \in DOMAIN Split(lastScan[x].relativePath) :
                      Split(lastScan[x].relativePath)[k] \notin SKIP_DIRS
               /\ EntryOf(lastScan[x].absolutePath).type = "file"
               /\ EndsWith(lastScan[x].absolutePath, DotAs)
        /\ (\A i \in 1..Len(scanRoots) : OnlySkipDirs(scanRoots[i]))
               => lastScan = <<>>

\* a scan of /k (Saved only), /q (a directory b.as, a file sub) and /p
\* (Saved/a.as, a symbolic link sub/B.as) that returned files
C15_Witness ==
    /\ Scanned
    /\ scanRoots = <<RootK, RootQ, RootP>>
    /\ unreadable = {}
    /\ Len(lastScan) >= 2

\* C16: a root that does not exist or is not a directory, a directory that
\* cannot be read and a file that cannot be stat-ed are skipped; the call
\* returns, and its result has every ".as" file that the readable
\* directories of every directory root hold.
C16_BestEffort ==
    Scanned =>
        \A i \in 1..Len(scanRoots) : \A e \in ScanDisk :
            Reachable(i, e) => Returned(i, e)

\* a scan with a root that is a file, an unreadable directory and a file
\* that cannot be stat-ed returned the files left
C16_Witness ==
    /\ Scanned
    /\ scanRoots = <<RootF, RootP>>
    /\ unreadable # {}
    /\ unstatable # {}
    /\ lastScan # <<>>

\* C17: the second of two consecutive calls returns the sequence the first
\* returned.
C17_Idempotent == scanCalls >= 2 => lastScan = prevScan

\* two calls that returned several files
C17_Witness == scanCalls >= 2 /\ Len(lastScan) >= 2 /\ lastScan = prevScan

\* ------------------------------------------------------------------------
\* searchInFile and as_search_scripts: the claims
\* ------------------------------------------------------------------------

\* searchInFile has returned, having read the file
FileSearched == searchPc = "done" /\ outcome = "none" /\ readFails = {}

\* the lines of the file searched
FileLines == SplitLines(contents[SearchedPath])

\* C18: the context of a match at line m of a file of L lines, the radius
\* being N >= 0, is the lines max(1, m - N) .. min(L, m + N) in increasing
\* order, each with its own number, the match line among them.
C18_ContextWindow ==
    FileSearched =>
        \A x \in DOMAIN fileMatches :
            LET m == fileMatches[x].line
                lo == IF m - context_lines < 1 THEN 1 ELSE m - context_lines
                hi == IF m + context_lines > Len(FileLines)
                      THEN Len(FileLines) ELSE m + context_lines
            IN  /\ Len(fileMatches[x].context) = hi - lo + 1
                /\ \A k \in 1..(hi - lo + 1) :
                       fileMatches[x].context[k] =
                           [lineNumber |-> lo + k - 1,
                            content |-> FileLines[lo + k - 1]]

\* with radius 2, one match was clamped at the start of the file and one
\* at its end
C18_Witness ==
    /\ FileSearched
    /\ context_lines = 2
    /\ \E x, y \in DOMAIN fileMatches :
           /\ fileMatches[x].line - context_lines < 1
           /\ fileMatches[y].line + context_lines > Len(FileLines)
           /\ Len(fileMatches[x].context) >= 2
           /\ Len(fileMatches[y].context) >= 2
           /\ Len(FileLines) >= 4

\* C19: searchInFile returns one entry for every line that matches,
\* however many match positions the line has, none for a line that does
\* not match, and the entries in strictly increasing line order.
C19_OneEntryPerLine ==
    FileSearched =>
        /\ \A l \in 1..Len(FileLines) :
               Cardinality({x \in DOMAIN fileMatches : fileMatches[x].line = l})
                   = IF Occurrences(pattern, FileLines[l]) >= 1 THEN 1 ELSE 0
        /\ \A x \in DOMAIN fileMatches :
               /\ fileMatches[x].line \in 1..Len(FileLines)
               /\ fileMatches[x].content = FileLines[fileMatches[x].line]
        /\ \A x, y \in DOMAIN fileMatches :
               x < y => fileMatches[x].line < fileMatches[y].line

\* a line with two match positions gave an entry, another line gave none
C19_Witness ==
    /\ FileSearched
    /\ Len(fileMatches) >= 2
    /\ \E x \in DOMAIN fileMatches :
           Occurrences(pattern, fileMatches[x].content) = 2
    /\ \E l \in 1..Len(FileLines) : Occurrences(pattern, FileLines[l]) = 0

\* the handler has searched
Searched == searchPc = "done" /\ outcome = "Searched"

\* the matches of the first k files, in file order and then line order
RECURSIVE AllMatches(_)
AllMatches(k) ==
    IF k = 0 THEN <<>>
    ELSE AllMatches(k - 1)
         \o [x \in DOMAIN SearchInFile(searchFiles[k], pattern, context_lines) |->
                [relativePath |-> searchFiles[k].relativePath,
                 line |-> SearchInFile(searchFiles[k], pattern, context_lines)[x].line,
                 context |->
                     SearchInFile(searchFiles[k], pattern, context_lines)[x].context]]

\* C20: the handler reports at most max_results matches, which are the
\* first max_results matches in file order and then line order, and it
\* reads a file only while fewer than max_results matches were found.
C20_CapShortCircuits ==
    Searched =>
        LET all == AllMatches(Len(searchFiles))
        IN  /\ Len(searchResults) <= max_results
            /\ matchCount = Len(searchResults)
            /\ searchResults =
                   SubSeq(all, 1, IF Len(all) < max_results
                                  THEN Len(all) ELSE max_results)
            /\ Len(filesRead) <= Len(searchFiles)
            /\ \A k \in 1..Len(searchFiles) :
                   IF Len(AllMatches(k - 1)) < max_results
                   THEN /\ k \in DOMAIN filesRead
                        /\ filesRead[k] = searchFiles[k].absolutePath
                   ELSE k \notin DOMAIN filesRead

\* the cap was reached and files were left unread
C20_Witness ==
    /\ Searched
    /\ max_results >= 2
    /\ Len(searchResults) = max_results
    /\ Len(AllMatches(Len(searchFiles))) > max_results
    /\ Len(filesRead) >= 2
    /\ Len(filesRead) < Len(searchFiles)

\* the handler has returned
HandlerDone == searchPc = "done" /\ outcome # "none"

\* the pattern argument is not a regular expression
Malformed == pattern = "("

\* C21: on a malformed pattern the handler returns the invalid-pattern
\* error without having scanned a directory or read a file, and with no
\* results.
C21_FailsFast ==
    (HandlerDone /\ Malformed) =>
        /\ scanRoots # <<>> => outcome = "InvalidPattern"
        /\ outcome \in {"InvalidPattern", "NoScriptRoots"}
        /\ ~didScan
        /\ searchFiles = <<>>
        /\ filesRead = <<>>
        /\ searchResults = <<>>
        /\ matchCount = 0

\* the handler was called with a malformed pattern and roots that hold
\* scripts
C21_Witness ==
    /\ HandlerDone
    /\ Malformed
    /\ outcome = "InvalidPattern"
    /\ scanRoots = <<RootQ, RootP>>

\* the matches of the first k files, the files that cannot be read left
\* out
RECURSIVE MatchesOfReadable(_)
MatchesOfReadable(k) ==
    IF k = 0 THEN <<>>
    ELSE IF Segments(searchFiles[k].absolutePath) \in readFails
    THEN MatchesOfReadable(k - 1)
    ELSE MatchesOfReadable(k - 1)
         \o [x \in DOMAIN SearchInFile(searchFiles[k], pattern, context_lines) |->
                [relativePath |-> searchFiles[k].relativePath,
                 line |-> SearchInFile(searchFiles[k], pattern, context_lines)[x].line,
                 context |->
                     SearchInFile(searchFiles[k], pattern, context_lines)[x].context]]

\* C22: a file that cannot be read gives no match and does not end the
\* search: the matches reported are those of a search of the other files
\* alone.
C22_ReadFailureSkipped ==
    Searched =>
        LET others == MatchesOfReadable(Len(searchFiles))
        IN  /\ \A x \in DOMAIN searchResults : \A k \in DOMAIN searchFiles :
                   Segments(searchFiles[k].absolutePath) \in readFails
                   => searchResults[x].relativePath # searchFiles[k].relativePath
                      \/ \E j \in DOMAIN searchFiles :
                             /\ j # k
                             /\ searchFiles[j].relativePath = searchFiles[k].relativePath
            /\ searchResults =
                   SubSeq(others, 1, IF Len(others) < max_results
                                     THEN Len(others) ELSE max_results)

\* the read of a file failed and matches of files behind it are reported
C22_Witness ==
    /\ Searched
    /\ \E k \in DOMAIN filesRead :
           /\ Segments(filesRead[k]) \in readFails
           /\ k < Len(filesRead)
    /\ Len(searchResults) >= 2

\* C23: whatever the spelling of the roots, every entry returned has an
\* absolutePath that starts with its root followed by a separator, a root
\* that is an element of the Root Set, and a relativePath without
\* backslash.
C23_ScriptFileInvariant ==
    Scanned =>
        \A x \in DOMAIN lastScan :
            /\ StartsWith(lastScan[x].absolutePath, lastScan[x].root \o <<Sep>>)
            /\ \E i \in 1..Len(scanRoots) : scanRoots[i] = lastScan[x].root
            /\ \A k \in DOMAIN lastScan[x].relativePath :
                   lastScan[x].relativePath[k] # "\\"

\* ------------------------------------------------------------------------
\* runCommandlet: the two streams
\* ------------------------------------------------------------------------

\* a step changes the buffer or the truncation state of stdout
StdoutChanges == stdout' # stdout \/ stdoutTruncated' # stdoutTruncated

\* a step changes the buffer or the truncation state of stderr
StderrChanges == stderr' # stderr \/ stderrTruncated' # stderrTruncated

\* the truncation state of each stream comes from its own data alone
OwnTruncation ==
    /\ ~stdoutDropped => (~stdoutTruncated /\ MarkerCount(stdout) = 0)
    /\ ~stderrDropped => (~stderrTruncated /\ MarkerCount(stderr) = 0)

\* C24: a step that appends to, truncates or drops on one stream leaves
\* the buffer and the truncation state of the other stream as they were,
\* and a stream none of whose data was dropped is captured without
\* truncation whatever happened to the other stream.
C24_StreamsIndependent ==
    /\ []OwnTruncation
    /\ [][/\ StdoutChanges => ~StderrChanges
          /\ stdoutDropped' # stdoutDropped => ~StderrChanges
          /\ stderrDropped' # stderrDropped => ~StdoutChanges]_vars

\* stdout was truncated and stderr, which got data too, is whole
C24_Witness ==
    /\ stdoutTruncated
    /\ BufLen(stderr) > 0
    /\ ~stderrTruncated
    /\ ~stderrDropped
    /\ MarkerCount(stderr) = 0

\* ------------------------------------------------------------------------
\* readFileWithLines: the claim
\* ------------------------------------------------------------------------

ReadDone == readPc = "done" /\ contents # <<>>

\* the first line of the range asked for
RangeFirst == IF start_line.given /\ start_line.value > 1 THEN start_line.value ELSE 1

\* the last line of the range asked for
RangeLast ==
    IF end_line.given /\ end_line.value < Len(FileLines)
    THEN end_line.value ELSE Len(FileLines)

\* C25: whatever numbers start_line s and end_line e are, the output is
\* the lines numbered max(1, s) .. min(L, e), each with its own number; a
\* bound left out is the start or the end of the file, and an empty range
\* gives no lines.
C25_LineRange ==
    ReadDone =>
        /\ Len(readOut) = IF RangeLast < RangeFirst THEN 0
                          ELSE RangeLast - RangeFirst + 1
        /\ \A k \in DOMAIN readOut :
               readOut[k] = [lineNumber |-> RangeFirst + k - 1,
                             content |-> FileLines[RangeFirst + k - 1]]

====
